---- MODULE Spec2Model ----
(***************************************************************************)
(* A model of src/handler.py: the reaction menu (class Menu) and the       *)
(* display handler (class Handler) of discord-handler.                     *)
(*                                                                         *)
(* Every coroutine is cut at its await points: one action per segment      *)
(* between two awaits.  The chat platform (discord.py) is the environment: *)
(* it delivers reaction_add events to the coroutines suspended in          *)
(* wait_for, and lets a wait_for time out.                                  *)
(***************************************************************************)
EXTENDS Integers, Sequences, FiniteSets, TLC

(***************************************************************************)
(* Bounds of the model.                                                    *)
(***************************************************************************)
\* platform reaction_add events dispatched in one behaviour
MaxEvents == 3
\* calls of deploy_menu on one Menu
MaxDeploys == 2
\* keys of the page dict handed to attach_numbers
MaxPages == 11
\* calls of Handler.display in one behaviour
MaxCalls == 3
\* length of the pointer chain of the page retrieve_menu starts from
MaxChain == 3
\* platform message events dispatched while get_message is observed
MaxMessages == 3
\* fields of the page descriptor handed to retrieve_embed
MaxFields == 3
\* with two sessions interleaved: reaction_add events dispatched, and
\* deploy_menu calls per Menu
MaxSessionEvents == 2
MaxSessionDeploys == 1
\* reaction_add events dispatched where termination is checked
MaxLiveEvents == 2

(***************************************************************************)
(* Values.                                                                 *)
(***************************************************************************)
Sessions == {1, 2}
Users == {"u1", "u2"}
\* ctx.message.author of each session's context
Author(s) == IF s = 1 THEN "u1" ELSE "u2"

None == "None"
\* a message: the n-th message posted by a session's menu; owner 0 is a
\* message of the channel that belongs to no menu
NoMessage == [owner |-> 0, n |-> 0]
OtherMessage == [owner |-> 0, n |-> 1]
Live(s, k) == [owner |-> s, n |-> k]

\* emojis.PAGES[1..9]: the page-number symbols, in order
PAGES == <<"1", "2", "3", "4", "5", "6", "7", "8", "9">>
\* reaction symbols used in the menu loop
Emoji == {"1", "2", "X"}

\* a binding: the (function, args) pair stored by attach_function; args is
\* (self, page) for Menu.change_page and () for the others
Binding(f, p) == [func |-> f, page |-> p]
NoCall == Binding(None, None)
\* the attach_function calls a caller makes: change_page to a page of the
\* map or to a key that is not in it, a callback that sets the exit flag, and
\* a callback that rebinds a reaction with attach_function
Attachable ==
    { <<"2", Binding("change_page", "A")>>, <<"2", Binding("change_page", "ZZ")>>,
      <<"X", Binding("set_exit", None)>>, <<"X", Binding("rebind", None)>> }

NoEvent == [user |-> None, msg |-> NoMessage, emoji |-> None]
VARIABLES
    \* ---- class Menu, one entry per session ----
    pages,       \* __pages: the keys of the page dict, in iteration order
    reactions,   \* __reactions: emoji -> (function, args)
    message,     \* __message: the live message, NoMessage for None
    exit,        \* __exit
    pc,          \* where deploy_menu stands
    cur,         \* deploy_menu's locals reaction, user (the accepted event)
    call,        \* deploy_menu's locals func, args
    error,       \* the exception deploy_menu raised to its caller, or None
    shown,       \* platform: the page key the live message displays
    offered,     \* platform: the reactions the bot added to the live message
    \* ---- history of each session ----
    numbered,    \* attach_numbers has been called
    deploys,     \* deploy_menu calls
    ended,       \* how the last deploy_menu call that ended did so: "no"
                 \* (none ended yet), "exit", "timeout" or "error"
    \* ---- history of each session's current deploy_menu call ----
    accepted,    \* events wait_for returned to the loop
    handled,     \* the last accepted event: "none" until line 79 is passed,
                 \* then "bound" or "unbound"
    invoked,     \* callbacks invoked by the loop
    returned,    \* callbacks that returned
    removed,     \* reaction.remove calls
    last_removed,\* the reaction and user of the last reaction.remove call
    \* ---- platform ----
    nevents,     \* reaction_add events dispatched so far
    last_event,  \* the last reaction_add event dispatched
    heard        \* the sessions suspended in wait_for when it was dispatched

menu_vars ==
    << pages, reactions, message, exit, pc, cur, call, error, shown, offered,
       numbered, deploys, ended, accepted, handled, invoked, returned, removed,
       last_removed, nevents, last_event, heard >>

VARIABLES
    \* ---- class Handler ----
    handler_message, \* Handler.message: 0 for None, k for the k-th message sent
    dpc,         \* where each caller of display stands
    dflow,       \* display's argument flow
    dtarget,     \* the message display's edit was issued on
    posted,      \* platform: messages created by ctx.send
    hshown,      \* platform: the flow each posted message displays
    edits,       \* platform: edits issued by display
    edited,      \* platform: the messages those edits were issued on
    started,     \* display calls begun
    displayed,   \* display calls completed
    overlap,     \* a display call began while another was suspended
    \* ---- Handler.retrieve_menu ----
    rm_flow,     \* the argument flow_type
    pointer,     \* self.__pages[flow_type].pointer: the flows of the chain
    rm_pc,       \* "call", "returned" or "raised"
    rm_menu,     \* the page dict of the Menu returned
    rm_error     \* the exception raised, or None

handler_vars ==
    << handler_message, dpc, dflow, dtarget, posted, hshown, edits, edited,
       started, displayed, overlap >>

retrieve_vars == << rm_flow, pointer, rm_pc, rm_menu, rm_error >>

VARIABLES
    \* ---- Handler.get_message ----
    gm_pc,       \* "idle", "wait_for", "returned" or "raised"
    gm_result,   \* the value get_message returned
    gm_error,    \* the exception get_message raised, or None
    confirm,     \* get_message's local confirm: the message wait_for returned
    nmessages,   \* platform: message events dispatched so far
    last_message \* platform: the last message event dispatched

getmsg_vars == << gm_pc, gm_result, gm_error, confirm, nmessages, last_message >>

VARIABLES
    \* ---- Handler.retrieve_embed ----
    re_flow,     \* retrieve_embed's local flow: the page descriptor
    re_pc,       \* "call" or "returned"
    re_embed     \* the embed retrieve_embed returned

embed_vars == << re_flow, re_pc, re_embed >>

vars == << menu_vars, handler_vars, retrieve_vars, getmsg_vars, embed_vars >>

(***************************************************************************)
(* class Menu                                                              *)
(***************************************************************************)
\* d[k] = v of a Python dict held as a function
Put(d, k, v) == [x \in (DOMAIN d) \cup {k} |-> IF x = k THEN v ELSE d[x]]
EmptyDict == [x \in {} |-> NoCall]
SeqRange(q) == {q[i] : i \in 1..Len(q)}

\* Menu.__init__
MenuInit(pg) ==
    /\ pages = [s \in Sessions |-> pg]
    /\ reactions = [s \in Sessions |-> EmptyDict]
    /\ message = [s \in Sessions |-> NoMessage]
    /\ exit = [s \in Sessions |-> FALSE]
    /\ pc = [s \in Sessions |-> "BUILDING"]
    /\ cur = [s \in Sessions |-> NoEvent]
    /\ call = [s \in Sessions |-> NoCall]
    /\ error = [s \in Sessions |-> None]
    /\ shown = [s \in Sessions |-> None]
    /\ offered = [s \in Sessions |-> {}]
    /\ numbered = [s \in Sessions |-> FALSE]
    /\ deploys = [s \in Sessions |-> 0]
    /\ ended = [s \in Sessions |-> "no"]
    /\ accepted = [s \in Sessions |-> 0]
    /\ handled = [s \in Sessions |-> "none"]
    /\ invoked = [s \in Sessions |-> 0]
    /\ returned = [s \in Sessions |-> 0]
    /\ removed = [s \in Sessions |-> 0]
    /\ last_removed = [s \in Sessions |-> NoEvent]
    /\ nevents = 0
    /\ last_event = NoEvent
    /\ heard = {}

\* attach_function as it would be with self.__reactions.setdefault(...)
attach_function_setdefault(d, reaction, binding) ==
    IF reaction \in DOMAIN d THEN d ELSE Put(d, reaction, binding)

\* Menu.attach_function: self.__reactions[reaction] = (function, args)
attach_function(d, reaction, binding) == Put(d, reaction, binding)

\* range(1, 10) of attach_numbers: the stop of the range
RangeStop == 10

\* attach_numbers as it would be with range(1, 9)
RECURSIVE attach_from_short(_, _, _)
attach_from_short(d, pg, i) ==
    IF i > Len(pg) \/ i >= RangeStop - 1
    THEN d
    ELSE attach_from_short(Put(d, PAGES[i], Binding("change_page", pg[i])), pg, i + 1)

\* Menu.attach_numbers: for page, i in zip(self.__pages.keys(), range(1, 10)):
\*     self.__reactions[emojis.PAGES[i]] = (Menu.change_page, (self, page))
\* the zip ends with the shorter of the keys and the range
RECURSIVE attach_from(_, _, _)
attach_from(d, pg, i) ==
    IF i > Len(pg) \/ i >= RangeStop
    THEN d
    ELSE attach_from(Put(d, PAGES[i], Binding("change_page", pg[i])), pg, i + 1)

\* attach_numbers as it would be if it skipped the key 'MAIN'
attach_numbers_skip_main(d, pg) ==
    attach_from(d, SelectSeq(pg, LAMBDA k : k # "MAIN"), 1)

attach_numbers(d, pg) == attach_from(d, pg, 1)

\* verify as it would be with no check of the user
verify_anyone(s, reaction, user) == TRUE

\* Menu.verify: return user == self.__ctx.message.author
verify(s, reaction, user) == user = Author(s)

\* attach_function called by the owner of the menu before it is deployed
AttachFunction(s, reaction, binding) ==
    /\ pc[s] = "BUILDING"
    /\ reactions' = [reactions EXCEPT ![s] = attach_function(@, reaction, binding)]
    /\ UNCHANGED << pages, message, exit, pc, cur, call, error, shown, offered >>
    /\ UNCHANGED << numbered, deploys, accepted, handled, invoked, returned, removed,
                    last_removed, nevents, last_event, heard >>
    /\ UNCHANGED << ended, handler_vars, retrieve_vars, getmsg_vars, embed_vars >>

\* attach_numbers called by the owner of the menu before it is deployed
AttachNumbers(s) ==
    /\ pc[s] = "BUILDING"
    /\ reactions' = [reactions EXCEPT ![s] = attach_numbers(@, pages[s])]
    /\ numbered' = [numbered EXCEPT ![s] = TRUE]
    /\ UNCHANGED << pages, message, exit, pc, cur, call, error, shown, offered >>
    /\ UNCHANGED << deploys, accepted, handled, invoked, returned, removed,
                    last_removed, nevents, last_event, heard >>
    /\ UNCHANGED << ended, handler_vars, retrieve_vars, getmsg_vars, embed_vars >>

\* deploy_menu, line 69: self.__message = await channel.send(embed=pages['MAIN'])
\* called on a Menu whose loop is not running: a new Menu, or one whose
\* earlier deploy_menu returned or raised.  The call has fresh locals, and
\* the history of the call starts again.
DeploySend(s) ==
    /\ pc[s] \in {"BUILDING", "TERMINATED", "RAISED"}
    /\ deploys[s] < MaxDeploys
    /\ deploys' = [deploys EXCEPT ![s] = @ + 1]
    /\ cur' = [cur EXCEPT ![s] = NoEvent]
    /\ call' = [call EXCEPT ![s] = NoCall]
    /\ accepted' = [accepted EXCEPT ![s] = 0]
    /\ handled' = [handled EXCEPT ![s] = "none"]
    /\ invoked' = [invoked EXCEPT ![s] = 0]
    /\ returned' = [returned EXCEPT ![s] = 0]
    /\ removed' = [removed EXCEPT ![s] = 0]
    /\ last_removed' = [last_removed EXCEPT ![s] = NoEvent]
    /\ IF "MAIN" \in SeqRange(pages[s])
       THEN /\ message' = [message EXCEPT ![s] = Live(s, deploys[s] + 1)]
            /\ shown' = [shown EXCEPT ![s] = "MAIN"]
            /\ offered' = [offered EXCEPT ![s] = {}]
            /\ pc' = [pc EXCEPT ![s] = "add_reaction"]
            /\ error' = [error EXCEPT ![s] = None]
            /\ UNCHANGED ended
       ELSE /\ pc' = [pc EXCEPT ![s] = "RAISED"]
            /\ error' = [error EXCEPT ![s] = "KeyError"]
            /\ ended' = [ended EXCEPT ![s] = "error"]
            /\ UNCHANGED << message, shown, offered >>
    /\ UNCHANGED << pages, reactions, exit, numbered, nevents, last_event, heard >>
    /\ UNCHANGED << handler_vars, retrieve_vars, getmsg_vars, embed_vars >>

\* deploy_menu, lines 70-71: for i in reactions.keys(): await message.add_reaction(i)
AddReactions(s) ==
    /\ pc[s] = "add_reaction"
    /\ offered' = [offered EXCEPT ![s] = DOMAIN reactions[s]]
    /\ pc' = [pc EXCEPT ![s] = "loop"]
    /\ UNCHANGED << pages, reactions, message, exit, cur, call, error, shown >>
    /\ UNCHANGED << numbered, deploys, accepted, handled, invoked, returned, removed,
                    last_removed, nevents, last_event, heard >>
    /\ UNCHANGED << ended, handler_vars, retrieve_vars, getmsg_vars, embed_vars >>

\* the loop test as it would be with "while True"
LoopTest_forever(s) == TRUE

\* the loop test as it would be with a loop that tests the flag only after
\* its first pass (while True: ...; if self.__exit: break)
LoopTest_after_first(s) == ~exit[s] \/ accepted[s] = 0

\* deploy_menu, line 73: while not self.__exit
LoopTest(s) == ~exit[s]

\* line 73, and line 74 up to the await of wait_for
LoopCheck(s) ==
    /\ pc[s] = "loop"
    /\ pc' = [pc EXCEPT ![s] = IF LoopTest(s) THEN "wait_for" ELSE "TERMINATED"]
    /\ ended' = [ended EXCEPT ![s] = IF LoopTest(s) THEN @ ELSE "exit"]
    /\ UNCHANGED << pages, reactions, message, exit, cur, call, error, shown, offered >>
    /\ UNCHANGED << numbered, deploys, accepted, handled, invoked, returned, removed,
                    last_removed, nevents, last_event, heard >>
    /\ UNCHANGED << handler_vars, retrieve_vars, getmsg_vars, embed_vars >>

\* the acceptance as it would be with a listener registered for the whole
\* session (an on_reaction_add handler) and not a wait_for inside the loop
Accepts_listener(s, ev) ==
    pc[s] \in {"wait_for", "callback", "remove"} /\ verify(s, ev, ev.user)

\* the platform dispatches a reaction_add event: every coroutine suspended in
\* wait_for('reaction_add', timeout=60.0, check=self.verify) whose check
\* accepts the event gets (reaction, user) as the result of line 74; nothing
\* queues the event for a coroutine that is not waiting
Accepts(s, ev) == pc[s] = "wait_for" /\ verify(s, ev, ev.user)

ReactionAdd(ev) ==
    /\ nevents < MaxEvents
    /\ nevents' = nevents + 1
    /\ last_event' = ev
    /\ heard' = {s \in Sessions : pc[s] = "wait_for"}
    /\ pc' = [s \in Sessions |-> IF Accepts(s, ev) THEN "got" ELSE pc[s]]
    /\ cur' = [s \in Sessions |-> IF Accepts(s, ev) THEN ev ELSE cur[s]]
    /\ accepted' = [s \in Sessions |-> IF Accepts(s, ev) THEN accepted[s] + 1 ELSE accepted[s]]
    /\ handled' = [s \in Sessions |-> IF Accepts(s, ev) THEN "none" ELSE handled[s]]
    /\ UNCHANGED << pages, reactions, message, exit, call, error, shown, offered >>
    /\ UNCHANGED << numbered, deploys, invoked, returned, removed, last_removed >>
    /\ UNCHANGED << ended, handler_vars, retrieve_vars, getmsg_vars, embed_vars >>

\* line 74 when 60 seconds pass with no accepted event: discord.py's
\* Client.wait_for raises asyncio.TimeoutError.  deploy_menu has no try
\* around the await, so the exception leaves deploy_menu: the assignment to
\* reaction, user and the test of line 75 are not reached.
\* wait_for as it would be called with no timeout: it stays suspended
WaitForTimeout_none == [pc |-> "wait_for", error |-> None]

WaitForTimeout == [pc |-> "RAISED", error |-> "TimeoutError"]

Timeout(s) ==
    /\ pc[s] = "wait_for"
    /\ pc' = [pc EXCEPT ![s] = WaitForTimeout.pc]
    /\ error' = [error EXCEPT ![s] = WaitForTimeout.error]
    /\ ended' = [ended EXCEPT ![s] = "timeout"]
    /\ UNCHANGED << pages, reactions, message, exit, cur, call, shown, offered >>
    /\ UNCHANGED << numbered, deploys, accepted, handled, invoked, returned, removed,
                    last_removed, nevents, last_event, heard >>
    /\ UNCHANGED << handler_vars, retrieve_vars, getmsg_vars, embed_vars >>

\* change_page as it would be with self.__pages.get(page): no key is missing
change_page_found_get(s, page) == TRUE

\* Menu.change_page: await self.__message.edit(embed=self.__pages[page])
\* the dict lookup raises KeyError before the edit is issued
change_page_found(s, page) == page \in SeqRange(pages[s])

\* line 80: func, args = self.__reactions[emoji]
Lookup(s, emoji) == reactions[s][emoji]

\* the loop as it would be with the callback called but not awaited
dispatch_target_no_await(found, raises) ==
    IF ~found THEN "remove" ELSE IF raises THEN "RAISED" ELSE "remove"

\* the loop as it would be with reaction.remove inside the if of line 79
dispatch_target_remove_if_bound(found, raises) ==
    IF ~found THEN "loop" ELSE IF raises THEN "RAISED" ELSE "callback"

\* lines 79-82: where the loop goes after the test of line 79
\*     if emoji in self.__reactions.keys(): ... await func(*args)
\*     await reaction.remove(user)
dispatch_target(found, raises) ==
    IF ~found THEN "remove" ELSE IF raises THEN "RAISED" ELSE "callback"

\* deploy_menu, lines 75-81 up to the await of the callback
\*     if reaction is None: break
\*     emoji = reaction.emoji
\*     if emoji in self.__reactions.keys():
\*         func, args = self.__reactions[emoji]; await func(*args)
Dispatch(s) ==
    /\ pc[s] = "got"
    /\ IF cur[s].emoji = None
       THEN /\ pc' = [pc EXCEPT ![s] = "TERMINATED"]
            /\ ended' = [ended EXCEPT ![s] = "timeout"]
            /\ UNCHANGED << call, invoked, error, handled >>
       ELSE LET found == cur[s].emoji \in DOMAIN reactions[s]
                binding == IF found THEN Lookup(s, cur[s].emoji) ELSE call[s]
                raises == found /\ binding.func = "change_page"
                                /\ ~change_page_found(s, binding.page)
            IN  /\ call' = [call EXCEPT ![s] = binding]
                /\ invoked' = [invoked EXCEPT ![s] = IF found THEN @ + 1 ELSE @]
                /\ handled' = [handled EXCEPT ![s] = IF found THEN "bound" ELSE "unbound"]
                /\ pc' = [pc EXCEPT ![s] = dispatch_target(found, raises)]
                /\ error' = [error EXCEPT ![s] = IF raises THEN "KeyError" ELSE @]
                /\ ended' = [ended EXCEPT ![s] = IF raises THEN "error" ELSE @]
    /\ UNCHANGED << pages, reactions, message, exit, cur, shown, offered >>
    /\ UNCHANGED << numbered, deploys, accepted, returned, removed,
                    last_removed, nevents, last_event, heard >>
    /\ UNCHANGED << handler_vars, retrieve_vars, getmsg_vars, embed_vars >>

\* what the rebinding callback attaches: attach_function(PAGES[1], set_exit, ())
RebindReaction == PAGES[1]
RebindBinding == Binding("set_exit", None)

\* line 81: the awaited callback completes
\*   change_page: the edit of the live message is done
\*   set_exit:    a callback of the caller that sets the menu's exit flag
\*   rebind:      a callback of the caller that calls attach_function
CallbackReturn(s) ==
    /\ pc[s] = "callback"
    /\ returned' = [returned EXCEPT ![s] = @ + 1]
    /\ shown' = [shown EXCEPT ![s] = IF call[s].func = "change_page" THEN call[s].page ELSE @]
    /\ exit' = [exit EXCEPT ![s] = IF call[s].func = "set_exit" THEN TRUE ELSE @]
    /\ reactions' = [reactions EXCEPT ![s] =
                        IF call[s].func = "rebind"
                        THEN attach_function(@, RebindReaction, RebindBinding)
                        ELSE @]
    /\ pc' = [pc EXCEPT ![s] = "remove"]
    /\ UNCHANGED << pages, message, cur, call, error, offered >>
    /\ UNCHANGED << numbered, deploys, accepted, handled, invoked, removed,
                    last_removed, nevents, last_event, heard >>
    /\ UNCHANGED << ended, handler_vars, retrieve_vars, getmsg_vars, embed_vars >>

\* line 82: await reaction.remove(user), then back to the loop test
Remove(s) ==
    /\ pc[s] = "remove"
    /\ removed' = [removed EXCEPT ![s] = @ + 1]
    /\ last_removed' = [last_removed EXCEPT ![s] = cur[s]]
    /\ pc' = [pc EXCEPT ![s] = "loop"]
    /\ UNCHANGED << pages, reactions, message, exit, cur, call, error, shown, offered >>
    /\ UNCHANGED << numbered, deploys, accepted, handled, invoked, returned,
                    nevents, last_event, heard >>
    /\ UNCHANGED << ended, handler_vars, retrieve_vars, getmsg_vars, embed_vars >>

\* the reaction_add events the platform can dispatch: a user adds a reaction
\* to the live message of a menu or to another message (a menu's earlier
\* message is another message to it)
Events ==
    [ user : Users,
      msg : ({OtherMessage} \cup {message[s] : s \in Sessions}) \ {NoMessage},
      emoji : Emoji ]

\* the steps of the menu of session s
MenuStep(s) ==
    \/ \E a \in Attachable : AttachFunction(s, a[1], a[2])
    \/ AttachNumbers(s)
    \/ DeploySend(s)
    \/ AddReactions(s)
    \/ LoopCheck(s)
    \/ Timeout(s)
    \/ Dispatch(s)
    \/ CallbackReturn(s)
    \/ Remove(s)


(***************************************************************************)
(* class Handler                                                           *)
(***************************************************************************)
\* the flows of the page source handed to the Handler
Flows == {"MAIN", "A", "B"}

\* flow.fields of each page: tuples (name, value) and (name, value, inline)
FieldsOf(flow) ==
    CASE flow = "MAIN" -> << <<"n1", "v1">>, <<"n2", "v2", FALSE>> >>
      [] flow = "A"    -> << <<"n3", "v3", TRUE>> >>
      [] OTHER         -> << >>

\* self.__pages[flow_type](self.player): the page descriptor
Descriptor(flow) == [title |-> flow, fields |-> FieldsOf(flow)]

\* the loop body as it would be with inline=False as the default
add_field_default_false(field) ==
    IF Len(field) = 2
    THEN [name |-> field[1], value |-> field[2], inline |-> FALSE]
    ELSE [name |-> field[1], value |-> field[2], inline |-> field[3]]

\* lines 163-167: one field of the embed
\*     if len(field) == 2: add_field(name=field[0], value=field[1], inline=True)
\*     else:               add_field(name=field[0], value=field[1], inline=field[2])
add_field(field) ==
    IF Len(field) = 2
    THEN [name |-> field[1], value |-> field[2], inline |-> TRUE]
    ELSE [name |-> field[1], value |-> field[2], inline |-> field[3]]

\* retrieve_embed, lines 159-173: the embed built from the descriptor flow,
\* its fields added in the order of flow.fields
embed_of(flow) ==
    [ kind |-> "Embed", title |-> flow.title,
      fields |-> [i \in 1..Len(flow.fields) |-> add_field(flow.fields[i])] ]

\* Handler.retrieve_embed: returns one discord.Embed object
retrieve_embed(flow_type) == embed_of(Descriptor(flow_type))

\* the field tuples a page descriptor can carry: (name, value) and
\* (name, value, inline)
FieldTuples ==
    {<<n, "v1">> : n \in {"n1", "n2"}}
        \cup {<<n, "v1", b>> : n \in {"n1", "n2"}, b \in BOOLEAN}
FieldLists(n) == UNION {[1..k -> FieldTuples] : k \in 0..n}

NoEmbed == [kind |-> None, title |-> None, fields |-> << >>]

\* retrieve_embed is called on a page whose descriptor is re_flow
RetrieveEmbed ==
    /\ re_pc = "call"
    /\ re_embed' = embed_of(re_flow)
    /\ re_pc' = "returned"
    /\ UNCHANGED re_flow
    /\ UNCHANGED << menu_vars, handler_vars, retrieve_vars, getmsg_vars >>

EmbedInit(flow) ==
    /\ re_flow = flow
    /\ re_pc = "call"
    /\ re_embed = NoEmbed

\* a, b = value: Python unpacks a tuple or list of exactly n items; an
\* object that is not iterable (a discord.Embed) raises TypeError
Unpackable(value, n) == value.kind = "tuple" /\ Len(value.items) = n

\* a Python dict with its insertion order
Dict(keys, val) == [keys |-> keys, val |-> val]
DictSet(d, k, v) ==
    Dict(IF k \in SeqRange(d.keys) THEN d.keys ELSE Append(d.keys, k),
         [x \in SeqRange(d.keys) \cup {k} |-> IF x = k THEN v ELSE d.val[x]])
NoDict == Dict(<< >>, [x \in {} |-> None])

\* retrieve_menu, lines 188-191:
\*     while pointer is not None:
\*         menu[pointer.flow] = self.retrieve_embed(pointer.flow)
\*         pointer = pointer.pointer
RECURSIVE walk(_, _)
walk(menu, ptr) ==
    IF ptr = << >>
    THEN menu
    ELSE walk(DictSet(menu, Head(ptr), retrieve_embed(Head(ptr))), Tail(ptr))

\* Handler.retrieve_menu (a plain def: one step)
\*     embed, message_type = self.retrieve_embed(flow_type)
\*     pointer = self.__pages[flow_type].pointer
\*     menu = {'MAIN': embed} ... return Menu(menu, ctx, bot)
RetrieveMenu ==
    /\ rm_pc = "call"
    /\ LET value == retrieve_embed(rm_flow)
       IN  IF Unpackable(value, 2)
           THEN /\ rm_menu' = walk(DictSet(NoDict, "MAIN", value.items[1]), pointer)
                /\ rm_pc' = "returned"
                /\ UNCHANGED rm_error
           ELSE /\ rm_error' = "TypeError"
                /\ rm_pc' = "raised"
                /\ UNCHANGED rm_menu
    /\ UNCHANGED << rm_flow, pointer >>
    /\ UNCHANGED << menu_vars, handler_vars, getmsg_vars, embed_vars >>


\* the coroutines that call display on one Handler
Callers == {1, 2}

\* display as it would be with no test of self.message
display_branch_always_send(msg) == "send"

\* Handler.display up to its await
\*     if self.message is None: self.message = await self.send(flow)
\*     else: await self.message.edit(embed=self.retrieve_embed(flow))
display_branch(msg) == IF msg = 0 THEN "send" ELSE "edit"

DisplayCall(t, flow) ==
    /\ dpc[t] = "idle"
    /\ started < MaxCalls
    /\ started' = started + 1
    /\ overlap' = (overlap \/ \E u \in Callers : dpc[u] # "idle")
    /\ dflow' = [dflow EXCEPT ![t] = flow]
    /\ dpc' = [dpc EXCEPT ![t] = display_branch(handler_message)]
    /\ IF display_branch(handler_message) = "edit"
       THEN /\ dtarget' = [dtarget EXCEPT ![t] = handler_message]
            /\ edits' = edits + 1
            /\ edited' = edited \cup {handler_message}
       ELSE UNCHANGED << dtarget, edits, edited >>
    /\ UNCHANGED << handler_message, posted, hshown, displayed >>
    /\ UNCHANGED << menu_vars, retrieve_vars, getmsg_vars, embed_vars >>

\* line 143 resumes: ctx.send has created a message, which is stored
SendDone(t) ==
    /\ dpc[t] = "send"
    /\ posted' = posted + 1
    /\ hshown' = Append(hshown, dflow[t])
    /\ handler_message' = posted + 1
    /\ dpc' = [dpc EXCEPT ![t] = "idle"]
    /\ displayed' = displayed + 1
    /\ UNCHANGED << dflow, dtarget, edits, edited, started, overlap >>
    /\ UNCHANGED << menu_vars, retrieve_vars, getmsg_vars, embed_vars >>

\* line 145 resumes: the edit of the stored message is done
EditDone(t) ==
    /\ dpc[t] = "edit"
    /\ hshown' = [hshown EXCEPT ![dtarget[t]] = dflow[t]]
    /\ dpc' = [dpc EXCEPT ![t] = "idle"]
    /\ displayed' = displayed + 1
    /\ UNCHANGED << handler_message, dflow, dtarget, posted, edits, edited, started, overlap >>
    /\ UNCHANGED << menu_vars, retrieve_vars, getmsg_vars, embed_vars >>

\* the channel of the Handler's context (ctx.message.channel) and the
\* author of its message (ctx.message.author)
Channels == {"c1", "c2"}
HandlerChannel == "c1"
HandlerAuthor == "u1"

NoText == [author |-> None, channel |-> None, content |-> None]
Texts == [author : Users, channel : Channels, content : {"yes", "no"}]

\* Handler.verify: message.author == ctx.message.author and
\*                 message.channel == ctx.message.channel
handler_verify(msg) == msg.author = HandlerAuthor /\ msg.channel = HandlerChannel

\* get_message is called: line 128 up to the await of wait_for
GetMessageCall ==
    /\ gm_pc = "idle"
    /\ gm_pc' = "wait_for"
    /\ UNCHANGED << gm_result, gm_error, confirm, nmessages, last_message >>
    /\ UNCHANGED << menu_vars, handler_vars, retrieve_vars, embed_vars >>

\* lines 130-132 once wait_for has returned a message
\*     if confirm is not None: return confirm.content
\*     return None
get_message_result(msg) == IF msg # NoText THEN msg.content ELSE None

\* the platform dispatches a message event: a get_message suspended in
\* wait_for('message', timeout=60.0, check=self.verify) whose check accepts
\* it resumes with the message and returns
MessageSent(msg) ==
    /\ nmessages < MaxMessages
    /\ nmessages' = nmessages + 1
    /\ last_message' = msg
    /\ IF gm_pc = "wait_for" /\ handler_verify(msg)
       THEN /\ confirm' = msg
            /\ gm_result' = get_message_result(msg)
            /\ gm_pc' = "returned"
       ELSE UNCHANGED << confirm, gm_result, gm_pc >>
    /\ UNCHANGED gm_error
    /\ UNCHANGED << menu_vars, handler_vars, retrieve_vars, embed_vars >>

\* line 128 when 60 seconds pass with no accepted message: discord.py's
\* Client.wait_for raises asyncio.TimeoutError; get_message has no try
\* around the await, so the exception leaves get_message and lines 130-132
\* are not reached
GetMessageTimeout ==
    /\ gm_pc = "wait_for"
    /\ gm_pc' = WaitForTimeout.pc
    /\ gm_error' = WaitForTimeout.error
    /\ UNCHANGED << gm_result, confirm, nmessages, last_message >>
    /\ UNCHANGED << menu_vars, handler_vars, retrieve_vars, embed_vars >>

GetMessageInit ==
    /\ gm_pc = "idle"
    /\ gm_result = None
    /\ gm_error = None
    /\ confirm = NoText
    /\ nmessages = 0
    /\ last_message = NoText

\* Handler.__init__, and retrieve_menu about to be called with flow_type on
\* a page whose pointer chain is ptr
HandlerInit ==
    /\ handler_message = 0
    /\ dpc = [t \in Callers |-> "idle"]
    /\ dflow = [t \in Callers |-> None]
    /\ dtarget = [t \in Callers |-> 0]
    /\ posted = 0
    /\ hshown = << >>
    /\ edits = 0
    /\ edited = {}
    /\ started = 0
    /\ displayed = 0
    /\ overlap = FALSE

RetrieveInit(flow_type, ptr) ==
    /\ rm_flow = flow_type
    /\ pointer = ptr
    /\ rm_pc = "call"
    /\ rm_menu = NoDict
    /\ rm_error = None

\* the page map of the menus of the event-loop specifications
MenuPages == <<"MAIN", "A">>

Init ==
    /\ MenuInit(MenuPages)
    /\ HandlerInit
    /\ RetrieveInit("MAIN", << >>)
    /\ GetMessageInit
    /\ EmbedInit(Descriptor("MAIN"))

\* one menu session (session 1) and the platform's events
Next ==
    \/ MenuStep(1)
    \/ \E ev \in Events : ReactionAdd(ev)

Spec == Init /\ [][Next]_vars

(***************************************************************************)
(* Properties of the menu loop (specification Spec)                        *)
(***************************************************************************)
\* what a session's menu holds and what the platform shows for it
MenuState(s) ==
    << pages[s], reactions[s], message[s], exit[s], shown[s], offered[s] >>
\* where a session's loop stands, with its locals and its history
LoopState(s) ==
    << pc[s], cur[s], call[s], error[s], accepted[s], handled[s], invoked[s],
       returned[s], removed[s], last_removed[s] >>

\* C1: once a callback has set the exit flag, the flag stays set, the loop
\* accepts no further event and invokes no further callback (an event that
\* arrives while the callback runs is never processed), and the only way
\* the loop leaves its test is to TERMINATED.
C1_ExitAfterStep ==
    \A s \in Sessions :
        exit[s] =>
            /\ exit'[s]
            /\ accepted'[s] <= accepted[s]
            /\ invoked'[s] <= invoked[s]
            /\ pc'[s] \in {"remove", "loop", "TERMINATED", "add_reaction"}
            /\ (pc[s] = "loop" /\ pc'[s] # "loop") => pc'[s] = "TERMINATED"

C1_ExitEndsLoop == [][C1_ExitAfterStep]_vars

\* C1 witness: the callback of the one accepted event set the exit flag, the
\* loop has terminated, and a later reaction of the invoking user on the
\* live message, dispatched while the loop was not waiting, was not processed
C1_Witness ==
    /\ pc[1] = "TERMINATED" /\ exit[1] /\ deploys[1] = 1
    /\ accepted[1] = 1 /\ invoked[1] = 1 /\ returned[1] = 1
    /\ nevents >= 2
    /\ last_event.user = Author(1) /\ last_event.msg = message[1]
    /\ 1 \notin heard

\* C2: when the wait of line 74 times out, the loop ends in TERMINATED with
\* no error raised to the caller of deploy_menu and no reaction removed.
C2_TimeoutStep ==
    \A s \in Sessions :
        Timeout(s) =>
            /\ pc'[s] = "TERMINATED"
            /\ error'[s] = None
            /\ removed'[s] = removed[s]

C2_TimeoutExitsCleanly == [][C2_TimeoutStep]_vars

\* C3: a reaction the invoking user adds to a message other than the
\* session's live message never makes the session invoke a callback and
\* never makes it remove a reaction.
C3_OnlyOwnMessage ==
    \A s \in Sessions :
        /\ pc[s] = "callback" => cur[s].msg = message[s]
        /\ removed[s] > 0 => last_removed[s].msg = message[s]

\* C4: only the invoking user's reactions are accepted.  An event of any
\* other user changes nothing of the session: not its menu (live message,
\* bindings, exit flag, page shown) and not its loop (no callback invoked,
\* no reaction removed); and every event the loop holds, and every reaction
\* it removed, is the invoking user's.
C4_OtherUserStep ==
    \A s \in Sessions :
        (nevents' # nevents /\ last_event'.user # Author(s)) =>
            /\ MenuState(s)' = MenuState(s)
            /\ LoopState(s)' = LoopState(s)

C4_OnlyAuthorHeld ==
    \A s \in Sessions :
        /\ accepted[s] > 0 => cur[s].user = Author(s)
        /\ removed[s] > 0 => last_removed[s].user = Author(s)

C4_OnlyInvokingUser == [][C4_OtherUserStep]_vars /\ []C4_OnlyAuthorHeld

\* C4 witness: another user's reaction on the live message was dispatched
\* while the loop was suspended in wait_for, and the loop still waits
C4_Witness ==
    /\ nevents > 0 /\ 1 \in heard /\ pc[1] = "wait_for"
    /\ last_event.user # Author(1) /\ last_event.msg = message[1]
    /\ last_event.emoji \in DOMAIN reactions[1]

\* C5: for an accepted event whose symbol is bound, the callback is invoked
\* exactly once, with the stored (function, args); the removal of the
\* user's reaction comes after the callback has returned, once, and it
\* removes the reaction of the accepted event.
C5_BoundEvent ==
    \A s \in Sessions :
        handled[s] = "bound" =>
            /\ pc[s] \in {"callback", "remove", "loop", "wait_for", "TERMINATED", "RAISED"}
            /\ pc[s] = "callback" =>
                   /\ cur[s].emoji \in DOMAIN reactions[s]
                   /\ call[s] = reactions[s][cur[s].emoji]
                   /\ invoked[s] = returned[s] + 1
                   /\ removed[s] = accepted[s] - 1
            /\ pc[s] = "remove" =>
                   /\ invoked[s] = returned[s]
                   /\ removed[s] = accepted[s] - 1
            /\ pc[s] \in {"loop", "wait_for", "TERMINATED"} =>
                   /\ invoked[s] = returned[s]
                   /\ removed[s] = accepted[s]
                   /\ last_removed[s] = cur[s]
            /\ (pc[s] = "RAISED" /\ error[s] = "KeyError") => removed[s] = accepted[s] - 1

C5_BoundStep ==
    \A s \in Sessions :
        /\ (handled[s] # "bound" /\ handled'[s] = "bound") => invoked'[s] = invoked[s] + 1
        /\ (handled[s] = "bound" /\ handled'[s] = "bound") => invoked'[s] = invoked[s]
        /\ removed'[s] > removed[s] =>
               /\ removed'[s] = removed[s] + 1
               /\ invoked[s] = returned[s]
               /\ last_removed'[s] = cur[s]

C6_UnboundEvent ==
    \A s \in Sessions :
        handled[s] = "unbound" =>
            /\ pc[s] \in {"remove", "loop", "wait_for", "RAISED"}
            /\ pc[s] = "RAISED" => error[s] = "TimeoutError"
            /\ pc[s] = "remove" => removed[s] = accepted[s] - 1
            /\ pc[s] # "remove" => (removed[s] = accepted[s] /\ last_removed[s] = cur[s])
            /\ invoked[s] = returned[s]

C6_UnboundStep ==
    \A s \in Sessions :
        handled'[s] = "unbound" =>
            /\ invoked'[s] = invoked[s]
            /\ MenuState(s)' = MenuState(s)
            /\ (pc[s] = "loop" /\ pc'[s] # "loop") => pc'[s] = "wait_for"

C6_UnboundIgnored == []C6_UnboundEvent /\ [][C6_UnboundStep]_vars

\* C6 witness: an event with an unbound symbol was accepted while other
\* symbols were bound, its reaction was removed, and the loop waits again
C6_Witness ==
    /\ handled[1] = "unbound" /\ pc[1] = "wait_for"
    /\ accepted[1] = 1 /\ removed[1] = 1 /\ invoked[1] = 0
    /\ reactions[1] # EmptyDict /\ cur[1].emoji \notin DOMAIN reactions[1]
    /\ last_removed[1] = cur[1] /\ shown[1] = "MAIN"

(***************************************************************************)
(* attach_numbers over page dicts of every size up to MaxPages             *)
(***************************************************************************)
\* the keys of a page dict of n pages with 'MAIN' as its k-th key
OtherKeys == <<"A", "B", "C", "D", "E", "F", "G", "H", "I", "J", "K", "L">>
KeySeq(n, k) ==
    [i \in 1..n |-> IF i = k THEN "MAIN" ELSE IF i < k THEN OtherKeys[i] ELSE OtherKeys[i - 1]]

InitNumbers ==
    /\ \E n \in 1..MaxPages : \E k \in 1..n : MenuInit(KeySeq(n, k))
    /\ HandlerInit
    /\ RetrieveInit("MAIN", << >>)
    /\ GetMessageInit
    /\ EmbedInit(Descriptor("MAIN"))

NextNumbers ==
    \/ \E a \in Attachable : AttachFunction(1, a[1], a[2])
    \/ AttachNumbers(1)

SpecNumbers == InitNumbers /\ [][NextNumbers]_vars

\* the page-number symbols that a reaction dict binds to a page of pg
NumberBindings(d, pg) ==
    {e \in SeqRange(PAGES) \cap DOMAIN d :
        d[e].func = "change_page" /\ d[e].page \in SeqRange(pg)}
\* the pages of pg that no page-number symbol of d is bound to
Unreachable(d, pg) ==
    {q \in SeqRange(pg) : \A e \in NumberBindings(d, pg) : d[e].page # q}
Min(a, b) == IF a <= b THEN a ELSE b

\* C7: attach_numbers over a page dict of any size binds at most 9
\* page-number symbols, each to a page of its own: as many as there are
\* pages, up to 9.  With 11 pages it binds exactly 9, and 2 pages are bound
\* to no page-number symbol.  It binds no symbol outside the 9.
C7_Step ==
    AttachNumbers(1) =>
        LET new == reactions'[1]
            pg == pages[1]
            nb == NumberBindings(new, pg)
        IN  /\ Cardinality(nb) <= 9
            /\ Cardinality(nb) = Min(Len(pg), 9)
            /\ \A e1, e2 \in nb : e1 # e2 => new[e1].page # new[e2].page
            /\ DOMAIN new \subseteq DOMAIN reactions[1] \cup SeqRange(PAGES)
            /\ Len(pg) = 11 => (Cardinality(nb) = 9 /\ Cardinality(Unreachable(new, pg)) = 2)

C7_AtMostNine == [][C7_Step]_vars

\* C7 witness: attach_numbers has run over 11 pages, 9 page-number symbols
\* are bound and 2 pages are left without one
C7_Witness ==
    /\ numbered[1] /\ Len(pages[1]) = 11
    /\ Cardinality(NumberBindings(reactions[1], pages[1])) = 9
    /\ Cardinality(Unreachable(reactions[1], pages[1])) = 2

\* C8 as stated: attach_numbers binds page-number symbols only for keys other
\* than MAIN (no page-number symbol changes the page to MAIN), and a symbol
\* that already carries a binding keeps it.
C8_OnlyNonMainStep ==
    AttachNumbers(1) =>
        LET new == reactions'[1]
            old == reactions[1]
        IN  /\ \A e \in SeqRange(PAGES) \cap DOMAIN new :
                   new[e] # Binding("change_page", "MAIN")
            /\ \A e \in DOMAIN old : new[e] = old[e]

C8_OnlyNonMain == [][C8_OnlyNonMainStep]_vars

\* C8 as amended: attach_numbers binds the i-th page-number symbol to the
\* i-th key of the page dict in iteration order, MAIN included, for every i
\* up to the number of keys and at most 9, replacing a binding the symbol
\* had; every other symbol keeps its binding or stays unbound.
C8_EveryKeyStep ==
    AttachNumbers(1) =>
        LET new == reactions'[1]
            old == reactions[1]
            pg == pages[1]
            written == {PAGES[i] : i \in 1..Min(Len(pg), 9)}
        IN  /\ DOMAIN new = DOMAIN old \cup written
            /\ \A i \in 1..Min(Len(pg), 9) : new[PAGES[i]] = Binding("change_page", pg[i])
            /\ \A e \in DOMAIN old \ written : new[e] = old[e]

C8_EveryKeyInOrder == [][C8_EveryKeyStep]_vars

\* C8 witness: attach_numbers has run over a dict whose second key is MAIN;
\* symbol 2, which attach_function had bound, now changes the page to MAIN
C8_Witness ==
    /\ numbered[1] /\ Len(pages[1]) = 3 /\ pages[1][2] = "MAIN"
    /\ "X" \in DOMAIN reactions[1]
    /\ \A i \in 1..3 : /\ PAGES[i] \in DOMAIN reactions[1]
                      /\ reactions[1][PAGES[i]] = Binding("change_page", pages[1][i])

(***************************************************************************)
(* display called by up to two coroutines on one Handler                   *)
(***************************************************************************)
NextHandler ==
    \/ \E t \in Callers, flow \in Flows : DisplayCall(t, flow)
    \/ \E t \in Callers : SendDone(t)
    \/ \E t \in Callers : EditDone(t)

SpecHandler == Init /\ [][NextHandler]_vars

\* C9: display calls that each complete before the next begins post exactly
\* one message, by the first call; every later call issues one edit, on
\* that stored message; no second message is posted.
C9_OnePostThenEdits ==
    ~overlap =>
        /\ posted = (IF displayed >= 1 THEN 1 ELSE 0)
        /\ edits = (IF started >= 1 THEN started - 1 ELSE 0)
        /\ handler_message = posted
        /\ edited \subseteq {1}
        /\ edits >= 1 => edited = {handler_message}

\* C9 witness: three display calls, one after the other, have completed:
\* one message posted, two edits, both of that message
C9_Witness ==
    /\ ~overlap /\ displayed = 3 /\ started = 3
    /\ posted = 1 /\ edits = 2 /\ edited = {1} /\ handler_message = 1
    /\ hshown[1] # "MAIN"

(***************************************************************************)
(* retrieve_menu on a page with a pointer chain of up to MaxChain flows    *)
(***************************************************************************)
RECURSIVE Chains(_)
Chains(n) ==
    IF n = 0 THEN {<< >>}
    ELSE Chains(n - 1) \cup {Append(c, f) : c \in Chains(n - 1), f \in Flows}

InitRetrieve ==
    /\ MenuInit(MenuPages)
    /\ HandlerInit
    /\ \E flow_type \in Flows, ptr \in Chains(MaxChain) : RetrieveInit(flow_type, ptr)
    /\ GetMessageInit
    /\ EmbedInit(Descriptor("MAIN"))

NextRetrieve == RetrieveMenu

SpecRetrieve == InitRetrieve /\ [][NextRetrieve]_vars

\* C10: retrieve_menu(flow_id) on a page with the pointer chain p1..pk
\* returns a Menu whose page dict has exactly the keys MAIN, p1, ..., pk,
\* MAIN mapped to the render of flow_id and each pi to the render of pi.
C10_ChainKeys ==
    rm_pc # "call" =>
        /\ rm_pc = "returned"
        /\ rm_error = None
        /\ SeqRange(rm_menu.keys) = {"MAIN"} \cup SeqRange(pointer)
        /\ rm_menu.val["MAIN"] = retrieve_embed(rm_flow)
        /\ \A q \in SeqRange(pointer) \ {"MAIN"} : rm_menu.val[q] = retrieve_embed(q)

(***************************************************************************)
(* get_message and the message events of the platform                      *)
(***************************************************************************)
NextMessage ==
    \/ GetMessageCall
    \/ \E msg \in Texts : MessageSent(msg)
    \/ GetMessageTimeout

SpecMessage == Init /\ [][NextMessage]_vars

\* C11: get_message returns the content of the first message of the
\* invoking user in the invoking channel (never a message of another user
\* or channel), and when the 60 seconds pass with no such message it
\* returns None and raises no error.
C11_TextOrNone ==
    /\ gm_pc # "raised"
    /\ gm_error = None
    /\ gm_pc = "returned" =>
           IF confirm = NoText
           THEN gm_result = None
           ELSE /\ confirm.author = HandlerAuthor
                /\ confirm.channel = HandlerChannel
                /\ gm_result = confirm.content

(***************************************************************************)
(* change_page                                                             *)
(***************************************************************************)
\* the steps that complete, and that fail, a change_page of session s
PageChanged(s) ==
    pc[s] = "callback" /\ call[s].func = "change_page" /\ pc'[s] = "remove"
PageMissing(s) == pc[s] = "got" /\ error'[s] = "KeyError"

\* C12: change_page(page) edits the live message in place to the page
\* stored under that key; with a key that is not in the page map it fails
\* with a KeyError that the menu loop does not catch (deploy_menu is left
\* with the error, the reaction is not removed) and nothing is edited.
C12_EditOrKeyError ==
    /\ [](\A s \in Sessions :
            /\ (pc[s] = "callback" /\ call[s].func = "change_page")
                   => call[s].page \in SeqRange(pages[s])
            /\ error[s] = "KeyError"
                   => /\ pc[s] = "RAISED"
                      /\ call[s].func = "change_page"
                      /\ call[s].page \notin SeqRange(pages[s])
                      /\ shown[s] # call[s].page
                      /\ returned[s] = invoked[s] - 1
                      /\ removed[s] = accepted[s] - 1)
    /\ [][\A s \in Sessions :
            /\ PageChanged(s) => /\ shown'[s] = call[s].page
                                 /\ message'[s] = message[s]
                                 /\ pages'[s] = pages[s]
            /\ PageMissing(s) => /\ shown'[s] = shown[s]
                                 /\ message'[s] = message[s]
                                 /\ pc'[s] = "RAISED"]_vars

C12_Witness ==
    /\ pc[1] = "RAISED" /\ error[1] = "KeyError"
    /\ call[1] = Binding("change_page", "ZZ")
    /\ accepted[1] = 2 /\ removed[1] = 1
    /\ shown[1] = "MAIN" /\ message[1] = Live(1, 1)

(***************************************************************************)
(* retrieve_embed over the field lists of a page descriptor                *)
(***************************************************************************)
InitEmbed ==
    /\ MenuInit(MenuPages)
    /\ HandlerInit
    /\ RetrieveInit("MAIN", << >>)
    /\ GetMessageInit
    /\ \E fields \in FieldLists(MaxFields) :
           EmbedInit([title |-> "MAIN", fields |-> fields])

NextEmbed == RetrieveEmbed

SpecEmbed == InitEmbed /\ [][NextEmbed]_vars

\* C13: the embed carries one field per tuple of flow.fields, in the same
\* order; name and value are the first and second element of the tuple; a
\* two-element tuple gives an inline field, a three-element tuple gives a
\* field whose inline flag is the third element.
C13_FieldsInOrder ==
    re_pc = "returned" =>
        /\ Len(re_embed.fields) = Len(re_flow.fields)
        /\ \A i \in 1..Len(re_flow.fields) :
              LET field == re_flow.fields[i]
                  shown_field == re_embed.fields[i]
              IN  /\ shown_field.name = field[1]
                  /\ shown_field.value = field[2]
                  /\ Len(field) = 2 => shown_field.inline
                  /\ Len(field) = 3 => shown_field.inline = field[3]

C13_Witness ==
    /\ re_pc = "returned"
    /\ Len(re_flow.fields) = 3
    /\ Len(re_flow.fields[1]) = 3 /\ ~re_embed.fields[1].inline
    /\ Len(re_flow.fields[2]) = 2 /\ re_embed.fields[2].inline
    /\ Len(re_flow.fields[3]) = 3 /\ re_embed.fields[3].inline
    /\ re_embed.fields[1].name # re_embed.fields[2].name

(***************************************************************************)
(* one event at a time                                                     *)
(***************************************************************************)
\* C14: a session processes reaction events one at a time and in arrival
\* order: at most one callback of a session is in flight, and the loop
\* accepts an event (the one being dispatched, never an earlier one) only
\* when the callback of the previous event has returned and that event's
\* reaction has been removed.
C14_OneAtATime ==
    /\ [](\A s \in Sessions :
            /\ invoked[s] - returned[s] \in {0, 1}
            /\ accepted[s] - removed[s] \in {0, 1}
            /\ invoked[s] - returned[s] = 1 => pc[s] \in {"callback", "RAISED"}
            /\ pc[s] = "wait_for" => /\ invoked[s] = returned[s]
                                     /\ accepted[s] = removed[s])
    /\ [][\A s \in Sessions :
            accepted'[s] # accepted[s] /\ deploys'[s] = deploys[s] =>
                /\ accepted'[s] = accepted[s] + 1
                /\ pc[s] = "wait_for"
                /\ invoked[s] = returned[s]
                /\ removed[s] = accepted[s]
                /\ cur'[s] = last_event'
                /\ nevents' = nevents + 1]_vars

C14_Witness ==
    /\ pc[1] = "callback"
    /\ accepted[1] = 2 /\ removed[1] = 1
    /\ invoked[1] = 2 /\ returned[1] = 1
    /\ nevents = 3
    /\ last_event # cur[1]

(***************************************************************************)
(* deploy_menu called again                                                *)
(***************************************************************************)
\* the loop of session s awaits or processes reaction events
Active(s) == pc[s] \in {"wait_for", "got", "callback", "remove"}

\* C15 as stated: once the loop of a session has ended, by the exit flag or
\* by the timeout, nothing (deploy_menu called again included) makes the
\* session await or process reaction events again.
C15_NoWayBack ==
    \A s \in Sessions : ended[s] \in {"exit", "timeout"} => ~Active(s)

\* C15 as the code has it: the Menu keeps no state of having ended other
\* than the exit flag.  Once the loop has ended by the exit flag, the flag
\* stays set and deploy_menu called again posts the MAIN page and returns
\* without awaiting or processing any event; a session is active again
\* after an ended call only if that call ended without the flag set.
C15_ExitIsFinal ==
    \A s \in Sessions :
        /\ ended[s] = "exit" =>
               /\ exit[s]
               /\ pc[s] \in {"TERMINATED", "add_reaction", "loop"}
        /\ (ended[s] # "no" /\ Active(s) /\ accepted[s] = 0) => ~exit[s]

C15_Witness ==
    /\ ended[1] = "exit" /\ exit[1]
    /\ deploys[1] = 2 /\ message[1] = Live(1, 2)
    /\ pc[1] = "TERMINATED"
    /\ accepted[1] = 0 /\ invoked[1] = 0
    /\ nevents = 3

(***************************************************************************)
(* attach_function and its frame                                           *)
(***************************************************************************)
\* the step binds reaction to binding in session s: that entry and no other
\* entry of the bindings changes, and the pages, the live message and what
\* it shows, and the exit flag stay as they are
Rebound(s, reaction, binding) ==
    /\ DOMAIN reactions'[s] = DOMAIN reactions[s] \cup {reaction}
    /\ reactions'[s][reaction] = binding
    /\ \A x \in DOMAIN reactions[s] \ {reaction} : reactions'[s][x] = reactions[s][x]
    /\ pages'[s] = pages[s]
    /\ message'[s] = message[s]
    /\ shown'[s] = shown[s]
    /\ exit'[s] = exit[s]

\* C16: attach_function registers or overwrites the binding of the given
\* symbol only, and leaves every other binding, the pages, the live message
\* and the exit flag unchanged, before the deploy and from inside a
\* callback of the running loop alike; the loop looks a symbol up in the
\* bindings as they are when the event is processed, so the next accepted
\* event with a rebound symbol invokes the new binding.
C16_BindOnlyThatSymbol ==
    [][\A s \in Sessions :
          /\ \A a \in Attachable :
                 AttachFunction(s, a[1], a[2]) => Rebound(s, a[1], a[2])
          /\ (pc[s] = "callback" /\ call[s].func = "rebind" /\ pc'[s] = "remove")
                 => Rebound(s, RebindReaction, RebindBinding)
          /\ (handled[s] = "none" /\ handled'[s] = "bound")
                 => call'[s] = reactions[s][cur[s].emoji]]_vars

C16_Witness ==
    /\ numbered[1]
    /\ pc[1] = "callback"
    /\ accepted[1] = 2 /\ removed[1] = 1
    /\ last_removed[1].emoji = "X"
    /\ cur[1].emoji = RebindReaction
    /\ call[1] = RebindBinding

(***************************************************************************)
(* two sessions of two users, interleaved                                  *)
(***************************************************************************)
\* the bindings each of the two menus was built with: attach_numbers, then
\* attach_function of a callback that sets the exit flag
SessionBindings ==
    attach_function(attach_numbers(EmptyDict, MenuPages), "X", Binding("set_exit", None))

InitSessions ==
    /\ MenuInit(MenuPages)
    /\ HandlerInit
    /\ RetrieveInit("MAIN", << >>)
    /\ GetMessageInit
    /\ EmbedInit(Descriptor("MAIN"))

BuildSession(s) ==
    /\ pc[s] = "BUILDING"
    /\ ~numbered[s]
    /\ reactions' = [reactions EXCEPT ![s] = SessionBindings]
    /\ numbered' = [numbered EXCEPT ![s] = TRUE]
    /\ UNCHANGED << pages, message, exit, pc, cur, call, error, shown, offered >>
    /\ UNCHANGED << deploys, accepted, handled, invoked, returned, removed,
                    last_removed, nevents, last_event, heard >>
    /\ UNCHANGED << ended, handler_vars, retrieve_vars, getmsg_vars, embed_vars >>

\* deploy_menu of a Menu that has been built and not deployed before
SessionDeploy(s) ==
    /\ numbered[s]
    /\ deploys[s] < MaxSessionDeploys
    /\ DeploySend(s)

SessionReactionAdd(ev) ==
    /\ nevents < MaxSessionEvents
    /\ ReactionAdd(ev)

NextSessions ==
    \/ \E s \in Sessions : BuildSession(s)
    \/ \E s \in Sessions : SessionDeploy(s)
    \/ \E s \in Sessions : AddReactions(s)
    \/ \E s \in Sessions : LoopCheck(s)
    \/ \E s \in Sessions : Timeout(s)
    \/ \E s \in Sessions : Dispatch(s)
    \/ \E s \in Sessions : CallbackReturn(s)
    \/ \E s \in Sessions : Remove(s)
    \/ \E ev \in Events : SessionReactionAdd(ev)

SpecSessions == InitSessions /\ [][NextSessions]_vars

\* everything session s owns: the Menu's fields, its live message as the
\* platform shows it, and where its loop stands with its history
SessionState(s) == << MenuState(s), LoopState(s), numbered[s], deploys[s], ended[s] >>

Started(s) ==
    pc[s] \in {"add_reaction", "loop", "wait_for", "got", "callback", "remove"}
Ended(s) == pc[s] \in {"TERMINATED", "RAISED"}

\* what the event loop and the platform guarantee to a deploy_menu that has
\* been called: its awaits of send, add_reaction and reaction.remove
\* complete, the callback it awaits returns, and the 60 second timer of
\* wait_for fires when no accepted event arrives first
Fairness(s) ==
    /\ WF_vars(AddReactions(s))
    /\ WF_vars(LoopCheck(s))
    /\ WF_vars(Timeout(s))
    /\ WF_vars(Dispatch(s))
    /\ WF_vars(CallbackReturn(s))
    /\ WF_vars(Remove(s))

LiveReactionAdd(ev) ==
    /\ nevents < MaxLiveEvents
    /\ ReactionAdd(ev)

NextLive ==
    \/ MenuStep(1)
    \/ \E ev \in Events : LiveReactionAdd(ev)

SpecLive == Init /\ [][NextLive]_vars /\ Fairness(1)

\* C18: every started session ends: once no further accepted event arrives
\* the timer of wait_for ends the loop, and once a callback has set the
\* exit flag the loop ends after the callback has returned; no session
\* stays in its loop forever.
C18_Terminates ==
    \A s \in Sessions :
        /\ Started(s) ~> Ended(s)
        /\ (Started(s) /\ exit[s]) ~> (pc[s] = "TERMINATED")

C18_Witness ==
    /\ pc[1] = "RAISED" /\ ended[1] = "timeout"
    /\ accepted[1] = 1 /\ invoked[1] = 1 /\ returned[1] = 1 /\ removed[1] = 1
    /\ nevents = 2
    /\ ~exit[1]

(***************************************************************************)
(* display calls that overlap                                              *)
(***************************************************************************)
\* C19: a Handler posts at most one message over its lifetime, also when a
\* display call begins while another is suspended in its send, and
\* Handler.message, once set, is never replaced by a different message (it
\* stays the first message posted).
C19_OneMessageEver ==
    /\ posted <= 1
    /\ handler_message \in {0, 1}

====
